---- MODULE Spec2Model ----
(***************************************************************************)
(* echotune (src/src/main.rs): the dataset cache (get_db), the catalog     *)
(* pipeline of main (parse, name normalization, the two country filters)   *)
(* and the supervision of the spawned VLC player (ctrlc handler, watchdog  *)
(* task, primary wait).                                                    *)
(*                                                                         *)
(* Four execution contexts are modelled: the main task (pc), the watchdog  *)
(* task (wd), the ctrlc handler thread (handlerPending) and the player     *)
(* process itself (vlc).  Signals reaching the program and the results of  *)
(* every fallible call (each `?` of the source) are inputs.                *)
(***************************************************************************)
EXTENDS Integers, Sequences, FiniteSets, TLC

----------------------------------------------------------------------------
(* Bounds of the model *)

\* longest stations catalog drawn for the catalog pipeline
MaxStations == 2
\* how many times the cache step is run against the same directory
MaxCalls == 2
\* how many signals the environment sends to the program in one run
MaxSignals == 2
MaxLate == 2

----------------------------------------------------------------------------
(* Data *)

Datasets == {"stations", "countries"}

\* a name is a sequence of characters; " " stands for any whitespace character
Whitespace == {" "}
Unknown == <<"U", "n", "k", "n", "o", "w", "n">>
Names == {<<>>, <<" ">>, <<"a">>, <<" ", "a">>}
Codes == {"", "US", "FR", "us"}
Urls == {"http://radio"}

\* StructStation as it is parsed, cut to the fields main reads or writes
StructStation == [name : Names, countrycode : Codes, url : Urls]

\* a countries dataset: Country, cut to name and iso_3166_1
CountryList == << [name |-> "c", iso_3166_1 |-> "US"], [name |-> "c", iso_3166_1 |-> "FR"] >>

RECURSIVE SeqsUpTo(_, _)
SeqsUpTo(S, n) ==
    IF n = 0 THEN {<<>>}
    ELSE LET shorter == SeqsUpTo(S, n - 1)
         IN  shorter \cup {Append(s, x) : s \in {t \in shorter : Len(t) = n - 1}, x \in S}

Catalogs == SeqsUpTo(StructStation, MaxStations)

\* the remote stations dataset of scenario A and a second one with a blank code
ScenarioA == << [name |-> <<>>, countrycode |-> "US", url |-> "http://radio"] >>
Mixed == << [name |-> <<"a">>, countrycode |-> "", url |-> "http://radio"],
            [name |-> <<" ">>, countrycode |-> "US", url |-> "http://radio"] >>

\* Option<T>
None == [tag |-> "None", val |-> ""]
Some(v) == [tag |-> "Some", val |-> v]

\* Args, as clap parses them
Args == [countries : BOOLEAN, country : {None} \cup {Some(c) : c \in Codes}, volume : {10}]
NoArgs == [countries |-> FALSE, country |-> None, volume |-> 10]

\* what a path of the data directory holds
Absent == [kind |-> "absent", val |-> <<>>]
EmptyFile == [kind |-> "empty", val |-> <<>>]
Garbage == [kind |-> "garbage", val |-> <<>>]
Json(v) == [kind |-> "json", val |-> v]

\* the bodies the two endpoints may answer with
Bodies(d) ==
    IF d = "stations" THEN {Json(ScenarioA), Json(Mixed), Garbage}
    ELSE {Json(CountryList), Garbage}

\* an HTTP response; a non-success one carries an error page
Responses(d) ==
    {[status |-> 200, body |-> b] : b \in Bodies(d)}
        \cup {[status |-> s, body |-> Garbage] : s \in {404, 503}}
NoRes == [status |-> 0, body |-> Absent]

\* the process identifiers the OS may hand out, and the "no process" sentinel
Pids == {7}
NoPid == -1

\* `late` counts the watchdog's requests sent with the flag already set
NoKill == [by |-> "none", flag |-> FALSE, target |-> "none", late |-> 0]

----------------------------------------------------------------------------
(* State *)

VARIABLES
    pc,             \* main: the source line it is about to run
    ds,             \* get_db: the dataset whose block it is in
    result,         \* how the program ended: "running", "Ok", "Err", "Killed"
    errAt,          \* the call whose error was propagated
    errDs,          \* the dataset block that call belongs to, if any
    vlc_location,   \* whether a VLC binary was found
    registered,     \* signals routed to the term flag by flag::register
    term,           \* the AtomicBool shared with the watchdog
    args,
    data_dir,
    dirExists,      \* file system: the data directory
    files,          \* file system: what stations.db and countries.json hold
    res,            \* get_db: db_res / countries_res
    db_ret,         \* get_db: its return value
    calls,          \* how many times get_db was entered
    station_raw,    \* line 149: station_list as parsed
    station_norm,   \* line 152: station_list after the name pass
    station_c,      \* line 164: station_list after the --country filter
    country_code,   \* line 173
    station_list,   \* line 194: the shortlist
    station_selection,
    vlc,            \* the player process: "none", "live", "exited", "reaped"
    vlcSig,         \* a SIGTERM was delivered to the live player
    vlc_pid,
    ctrlcSignals,   \* signals taken over by the ctrlc handler
    handlerPending, \* handler invocations the ctrlc thread has still to run
    wd,             \* watchdog task: "none", "check", "sleep", "done"
    pidReused,      \* the OS gave the reaped player's pid to another process
    strangerSignalled,  \* that other process received a SIGTERM from us
    \* history
    requests,       \* GETs issued, per dataset
    touches,        \* creations and writes of the cache file, per dataset
    checks,         \* runs of the existence check, per dataset
    hist,           \* file system and counters at each entry of get_db
    nSignals,       \* signals delivered to the program
    sigAfterSpawn,  \* a signal arrived after the spawn succeeded
    lastKill        \* the latest kill_process call: who, the flag, the target

fsVars == <<dirExists, files>>
dbVars == <<ds, res, db_ret, calls, requests, touches, checks, hist>>
catVars == <<station_raw, station_norm, station_c, country_code, station_list,
             station_selection>>
sigVars == <<registered, term, ctrlcSignals, handlerPending, nSignals, sigAfterSpawn>>
playerVars == <<vlc, vlcSig, vlc_pid, pidReused, strangerSignalled, lastKill>>
mainVars == <<pc, result, errAt, errDs, vlc_location, args, data_dir>>

vars == <<mainVars, fsVars, dbVars, catVars, sigVars, playerVars, wd>>

Running == result = "running"

ZeroCount == [d \in Datasets |-> 0]
\* what a call of get_db finds: the files, the counters so far, and what the
\* call before it returned
Snapshot == [files |-> files, requests |-> requests, touches |-> touches, prev |-> db_ret]

\* file systems a run may start from: each cache file is absent or holds
\* something, and a file implies its directory
StartFiles ==
    [Datasets -> {Absent}]
        \cup {[stations |-> s, countries |-> c] :
                s \in {Absent, Json(ScenarioA), Json(Mixed), Garbage},
                c \in {Absent, Json(CountryList)}}

InitCommon ==
    /\ result = "running" /\ errAt = "" /\ errDs = ""
    /\ registered = {} /\ term = FALSE
    /\ ds = "none" /\ res = [d \in Datasets |-> NoRes] /\ db_ret = "none"
    /\ requests = ZeroCount /\ touches = ZeroCount /\ checks = ZeroCount
    /\ station_raw = <<>> /\ station_norm = <<>> /\ station_c = <<>>
    /\ country_code = "" /\ station_list = <<>> /\ station_selection = 0
    /\ vlc = "none" /\ vlcSig = FALSE /\ vlc_pid = NoPid
    /\ ctrlcSignals = {} /\ handlerPending = 0 /\ wd = "none"
    /\ pidReused = FALSE /\ strangerSignalled = FALSE
    /\ nSignals = 0 /\ sigAfterSpawn = FALSE /\ lastKill = NoKill

\* the program is started: main is about to look for VLC
Init ==
    /\ InitCommon
    /\ pc = "L117" /\ vlc_location = FALSE /\ args = NoArgs /\ data_dir = "null"
    /\ files \in StartFiles
    /\ dirExists \in {b \in BOOLEAN : (\E d \in Datasets : files[d] # Absent) => b}
    /\ calls = 0 /\ hist = <<>>

\* main returns an error raised by the call `at`
Fail(at, d) ==
    /\ result' = "Err" /\ errAt' = at /\ errDs' = d /\ pc' = "returned"

----------------------------------------------------------------------------
(* main, lines 116-143: start-up *)

\* lines 117-124
FindVlc ==
    /\ Running /\ pc = "L117"
    /\ \E found \in BOOLEAN :
        /\ vlc_location' = found
        /\ IF found THEN pc' = "L128" /\ result' = result
                    ELSE pc' = "returned" /\ result' = "Ok"
    /\ UNCHANGED <<errAt, errDs, args, data_dir, fsVars, dbVars, catVars, sigVars,
                   playerVars, wd>>

\* lines 126-129: flag::register for SIGTERM, then for SIGINT
RegisterFlag ==
    /\ Running /\ pc \in {"L128", "L129"}
    /\ LET sig == IF pc = "L128" THEN "SIGTERM" ELSE "SIGINT"
           next == IF pc = "L128" THEN "L129" ELSE "L131"
       IN  \E ok \in BOOLEAN :
            IF ok
            THEN /\ registered' = registered \cup {sig}
                 /\ pc' = next
                 /\ UNCHANGED <<result, errAt, errDs>>
            ELSE /\ Fail("flag::register", "")
                 /\ UNCHANGED registered
    /\ UNCHANGED <<vlc_location, args, data_dir, fsVars, dbVars, catVars, term,
                   ctrlcSignals, handlerPending, nSignals, sigAfterSpawn, playerVars, wd>>

\* line 131
ParseArgs ==
    /\ Running /\ pc = "L131"
    /\ args' \in Args
    /\ pc' = "L134"
    /\ UNCHANGED <<result, errAt, errDs, vlc_location, data_dir, fsVars, dbVars,
                   catVars, sigVars, playerVars, wd>>

\* lines 323-329
get_data_dir == {"null", "/data/EchoTune"}

\* a start-up without the "null" test: get_db is called on whatever came back
DataDir_without_null_check ==
    /\ Running /\ pc = "L134"
    /\ \E dir \in get_data_dir :
        /\ data_dir' = dir
        /\ pc' = "L265" /\ result' = result
        /\ calls' = calls + 1
        /\ hist' = Append(hist, Snapshot)
    /\ UNCHANGED <<errAt, errDs, vlc_location, args, fsVars, ds, res, db_ret, requests,
                   touches, checks, catVars, sigVars, playerVars, wd>>

\* lines 133-143: build the App, give up on "null", else call get_db
DataDir ==
    /\ Running /\ pc = "L134"
    /\ \E dir \in get_data_dir :
        /\ data_dir' = dir
        /\ IF dir = "null"
           THEN /\ pc' = "returned" /\ result' = "Ok"
                /\ UNCHANGED <<calls, hist>>
           ELSE /\ pc' = "L265" /\ result' = result
                /\ calls' = calls + 1
                /\ hist' = Append(hist, Snapshot)
    /\ UNCHANGED <<errAt, errDs, vlc_location, args, fsVars, ds, res, db_ret, requests,
                   touches, checks, catVars, sigVars, playerVars, wd>>

----------------------------------------------------------------------------
(* get_db, lines 263-321 *)

Partial == [kind |-> "partial", val |-> <<>>]

\* get_db returns Err(e), e raised by the call `at` in the block of dataset d
DbFail(at, d) ==
    /\ db_ret' = "Err" /\ errAt' = at /\ errDs' = d /\ pc' = "L143ret" /\ ds' = "none"

\* line 265: create_dir_all; it succeeds on a directory that exists
CreateDir ==
    /\ Running /\ pc = "L265"
    /\ \E ok \in {TRUE} \cup {dirExists} :
        IF ok
        THEN /\ dirExists' = TRUE /\ pc' = "L279"
             /\ UNCHANGED <<ds, db_ret, errAt, errDs>>
        ELSE /\ DbFail("create_dir_all", "")
             /\ UNCHANGED dirExists
    /\ UNCHANGED <<result, vlc_location, args, data_dir, files, res, calls, requests,
                   touches, checks, hist, catVars, sigVars, playerVars, wd>>

\* lines 267-281: the client is built before either file is looked at
BuildClient ==
    /\ Running /\ pc = "L279"
    /\ \E ok \in BOOLEAN :
        IF ok
        THEN /\ ds' = "stations" /\ pc' = "check"
             /\ UNCHANGED <<db_ret, errAt, errDs>>
        ELSE DbFail("Client::build", "")
    /\ UNCHANGED <<result, vlc_location, args, data_dir, fsVars, res, calls, requests,
                   touches, checks, hist, catVars, sigVars, playerVars, wd>>

\* the existence test with its negation lost: fetch when the file is there
metadata_is_ok_inverted(d) == files[d] = Absent

\* lines 286, 305: tokio::fs::metadata(path).await.is_ok()
metadata_is_ok(d) == files[d] # Absent

\* the block of dataset d is left: on to the next block, or line 320, Ok(())
LeaveBlock(d) ==
    IF d = "stations"
    THEN /\ ds' = "countries" /\ pc' = "check" /\ db_ret' = db_ret
    ELSE /\ ds' = "none" /\ pc' = "L143ret" /\ db_ret' = "Ok"

\* lines 283-286, 301-305
CheckFile ==
    /\ Running /\ pc = "check"
    /\ checks' = [checks EXCEPT ![ds] = @ + 1]
    /\ IF metadata_is_ok(ds)
       THEN LeaveBlock(ds)
       ELSE pc' = "send" /\ UNCHANGED <<ds, db_ret>>
    /\ UNCHANGED <<result, errAt, errDs, vlc_location, args, data_dir, fsVars, res, calls,
                   requests, touches, hist, catVars, sigVars, playerVars, wd>>

\* lines 287-290, 306-309: one GET; a transport failure is propagated
SendRequest ==
    /\ Running /\ pc = "send"
    /\ requests' = [requests EXCEPT ![ds] = @ + 1]
    /\ \/ \E r \in Responses(ds) :
            /\ res' = [res EXCEPT ![ds] = r]
            /\ pc' = "status"
            /\ UNCHANGED <<ds, db_ret, errAt, errDs>>
       \/ /\ DbFail("send", ds)
          /\ UNCHANGED res
    /\ UNCHANGED <<result, vlc_location, args, data_dir, fsVars, calls, touches, checks,
                   hist, catVars, sigVars, playerVars, wd>>

\* a status test that only rules out server errors
is_success_below_500(status) == status >= 200 /\ status < 500

\* lines 292, 311: StatusCode::is_success
is_success(status) == status >= 200 /\ status < 300

\* lines 292, 311: a non-success response skips the block, with no error
CheckStatus ==
    /\ Running /\ pc = "status"
    /\ IF is_success(res[ds].status)
       THEN pc' = "create" /\ UNCHANGED <<ds, db_ret>>
       ELSE LeaveBlock(ds)
    /\ UNCHANGED <<result, errAt, errDs, vlc_location, args, data_dir, fsVars, res, calls,
                   requests, touches, checks, hist, catVars, sigVars, playerVars, wd>>

\* lines 293, 312: File::create leaves an empty file at the path
CreateFile ==
    /\ Running /\ pc = "create"
    /\ \E ok \in BOOLEAN :
        IF ok
        THEN /\ files' = [files EXCEPT ![ds] = EmptyFile]
             /\ touches' = [touches EXCEPT ![ds] = @ + 1]
             /\ pc' = "bytes"
             /\ UNCHANGED <<ds, db_ret, errAt, errDs>>
        ELSE /\ DbFail("File::create", ds)
             /\ UNCHANGED <<files, touches>>
    /\ UNCHANGED <<result, vlc_location, args, data_dir, dirExists, res, calls, requests,
                   checks, hist, catVars, sigVars, playerVars, wd>>

\* lines 295, 314: the body is read after the file was created
ReadBody ==
    /\ Running /\ pc = "bytes"
    /\ \E ok \in BOOLEAN :
        IF ok
        THEN pc' = "copy" /\ UNCHANGED <<ds, db_ret, errAt, errDs>>
        ELSE DbFail("bytes", ds)
    /\ UNCHANGED <<result, vlc_location, args, data_dir, fsVars, res, calls, requests,
                   touches, checks, hist, catVars, sigVars, playerVars, wd>>

\* lines 297, 316: tokio::io::copy; a failed copy leaves what it wrote so far
CopyBody ==
    /\ Running /\ pc = "copy"
    /\ touches' = [touches EXCEPT ![ds] = @ + 1]
    /\ \/ /\ files' = [files EXCEPT ![ds] = res[ds].body]
          /\ LeaveBlock(ds)
          /\ UNCHANGED <<errAt, errDs>>
       \/ /\ \E left \in {EmptyFile, Partial} : files' = [files EXCEPT ![ds] = left]
          /\ DbFail("copy", ds)
    /\ UNCHANGED <<result, vlc_location, args, data_dir, dirExists, res, calls, requests,
                   checks, hist, catVars, sigVars, playerVars, wd>>

\* line 143: get_db(..).await?
\* a call whose result is dropped: main goes on to line 147 whatever it was
GetDbReturn_ignores_error ==
    /\ Running /\ pc = "L143ret"
    /\ pc' = "L147" /\ result' = result
    /\ UNCHANGED <<errAt, errDs, vlc_location, args, data_dir, fsVars, dbVars, catVars,
                   sigVars, playerVars, wd>>

GetDbReturn ==
    /\ Running /\ pc = "L143ret"
    /\ IF db_ret = "Err"
       THEN pc' = "returned" /\ result' = "Err"
       ELSE pc' = "L147" /\ result' = result
    /\ UNCHANGED <<errAt, errDs, vlc_location, args, data_dir, fsVars, dbVars, catVars,
                   sigVars, playerVars, wd>>

get_db ==
    \/ CreateDir \/ BuildClient \/ CheckFile \/ SendRequest \/ CheckStatus
    \/ CreateFile \/ ReadBody \/ CopyBody

----------------------------------------------------------------------------
(* main, lines 145-223: the catalog pipeline *)

\* line 201
WarnThreshold == 100

\* str::trim, as Display uses it on line 73
RECURSIVE trim_start(_)
trim_start(s) ==
    IF s # <<>> /\ Head(s) \in Whitespace THEN trim_start(Tail(s)) ELSE s
RECURSIVE trim_end(_)
trim_end(s) ==
    IF s # <<>> /\ s[Len(s)] \in Whitespace THEN trim_end(SubSeq(s, 1, Len(s) - 1)) ELSE s
trim(s) == trim_end(trim_start(s))

\* lines 147-149: read stations.db and parse it
ReadStations ==
    /\ Running /\ pc = "L147"
    /\ IF files["stations"] = Absent
       THEN Fail("read_to_string", "stations") /\ UNCHANGED station_raw
       ELSE IF files["stations"].kind # "json"
       THEN Fail("from_str", "stations") /\ UNCHANGED station_raw
       ELSE /\ station_raw' = files["stations"].val
            /\ pc' = "L152"
            /\ UNCHANGED <<result, errAt, errDs>>
    /\ UNCHANGED <<vlc_location, args, data_dir, fsVars, dbVars, station_norm, station_c,
                   country_code, station_list, station_selection, sigVars, playerVars, wd>>

\* line 155: the test the name pass applies to a station
name_is_blank(station) == station.name = <<>>

\* lines 154-159: the closure mapped over the stations
normalize(station) ==
    IF name_is_blank(station) THEN [station EXCEPT !.name = Unknown] ELSE station

\* lines 152-160: into_iter().map(..).collect()
Normalize ==
    /\ Running /\ pc = "L152"
    /\ station_norm' = [i \in 1..Len(station_raw) |-> normalize(station_raw[i])]
    /\ pc' = "L164"
    /\ UNCHANGED <<result, errAt, errDs, vlc_location, args, data_dir, fsVars, dbVars,
                   station_raw, station_c, country_code, station_list, station_selection,
                   sigVars, playerVars, wd>>

\* lines 167, 196: the predicate of both filters
code_matches(station, code) == station.countrycode = code

\* lines 166-168, 195-197: into_iter().filter(..).collect()
RECURSIVE filter_collect(_, _)
filter_collect(list, code) ==
    IF list = <<>> THEN <<>>
    ELSE (IF code_matches(Head(list), code) THEN <<Head(list)>> ELSE <<>>)
            \o filter_collect(Tail(list), code)

\* the --country filter run on unwrap_or_default(): no code filters for ""
by_country_or_default(list, country) == filter_collect(list, country.val)

\* lines 164-171: the --country filter, skipped when no code was given
by_country(list, country) ==
    IF country.tag = "Some" THEN filter_collect(list, country.val) ELSE list

FilterCountry ==
    /\ Running /\ pc = "L164"
    /\ station_c' = by_country(station_norm, args.country)
    /\ pc' = "L173"
    /\ UNCHANGED <<result, errAt, errDs, vlc_location, args, data_dir, fsVars, dbVars,
                   station_raw, station_norm, country_code, station_list,
                   station_selection, sigVars, playerVars, wd>>

\* lines 173-190: country_code stays "" unless --countries picks one
SelectCountry ==
    /\ Running /\ pc = "L173"
    /\ IF ~args.countries
       THEN /\ country_code' = "" /\ pc' = "L194"
            /\ UNCHANGED <<result, errAt, errDs>>
       ELSE IF files["countries"] = Absent
       THEN Fail("read_to_string", "countries") /\ UNCHANGED country_code
       ELSE IF files["countries"].kind # "json"
       THEN Fail("from_str", "countries") /\ UNCHANGED country_code
       ELSE LET countries == files["countries"].val
            IN  \/ \E selection \in 1..Len(countries) :
                     /\ country_code' = countries[selection].iso_3166_1
                     /\ pc' = "L194"
                     /\ UNCHANGED <<result, errAt, errDs>>
                \/ Fail("interact", "countries") /\ UNCHANGED country_code
    /\ UNCHANGED <<vlc_location, args, data_dir, fsVars, dbVars, station_raw, station_norm,
                   station_c, station_list, station_selection, sigVars, playerVars, wd>>

\* a second filter that is applied only when a country was picked
FilterSelected_only_when_picked ==
    /\ Running /\ pc = "L194"
    /\ station_list' = (IF args.countries THEN filter_collect(station_c, country_code)
                                          ELSE station_c)
    /\ pc' = "L199"
    /\ UNCHANGED <<result, errAt, errDs, vlc_location, args, data_dir, fsVars, dbVars,
                   station_raw, station_norm, station_c, country_code, station_selection,
                   sigVars, playerVars, wd>>

\* lines 194-197: the second filter, always applied
FilterSelected ==
    /\ Running /\ pc = "L194"
    /\ station_list' = filter_collect(station_c, country_code)
    /\ pc' = "L199"
    /\ UNCHANGED <<result, errAt, errDs, vlc_location, args, data_dir, fsVars, dbVars,
                   station_raw, station_norm, station_c, country_code, station_selection,
                   sigVars, playerVars, wd>>

\* lines 199-210: a long shortlist waits for a line on stdin
CountWarn ==
    /\ Running /\ pc = "L199"
    /\ \E ok \in {TRUE} \cup {Len(station_list) <= WarnThreshold} :
        IF ok
        THEN pc' = "L212" /\ UNCHANGED <<result, errAt, errDs>>
        ELSE Fail("read_line", "")
    /\ UNCHANGED <<vlc_location, args, data_dir, fsVars, dbVars, catVars, sigVars,
                   playerVars, wd>>

\* lines 212-223: the fuzzy picker returns an index of the shortlist, or fails
SelectStation ==
    /\ Running /\ pc = "L212"
    /\ \/ \E i \in 1..Len(station_list) :
            /\ station_selection' = i
            /\ pc' = "L225"
            /\ UNCHANGED <<result, errAt, errDs>>
       \/ Fail("interact", "stations") /\ UNCHANGED station_selection
    /\ UNCHANGED <<vlc_location, args, data_dir, fsVars, dbVars, station_raw, station_norm,
                   station_c, country_code, station_list, sigVars, playerVars, wd>>

Pipeline ==
    \/ ReadStations \/ Normalize \/ FilterCountry \/ SelectCountry \/ FilterSelected
    \/ CountWarn \/ SelectStation

----------------------------------------------------------------------------
(* main, lines 225-260, and the contexts it starts: player supervision *)

\* what the captured identifier names at this moment
PidTarget ==
    IF vlc = "live" THEN "player"
    ELSE IF vlc = "exited" THEN "zombie"
    ELSE IF vlc = "reaped" /\ pidReused THEN "stranger"
    ELSE "nobody"

\* lines 331-356: a SIGTERM to whatever holds the identifier, the result dropped
kill_process(pid, by) ==
    /\ vlcSig' = (vlcSig \/ PidTarget = "player")
    /\ strangerSignalled' = (strangerSignalled \/ PidTarget = "stranger")
    /\ lastKill' = [by |-> by, flag |-> term, target |-> PidTarget,
                    late |-> IF by = "watchdog" /\ term /\ lastKill.late < MaxLate
                             THEN lastKill.late + 1 ELSE lastKill.late]

\* a spawn whose error is noted but not propagated: main goes on to line 234
SpawnPlayer_ignores_error ==
    /\ Running /\ pc = "L225"
    /\ \E ok \in BOOLEAN :
        /\ vlc' = (IF ok THEN "live" ELSE vlc)
        /\ errAt' = (IF ok THEN errAt ELSE "spawn")
        /\ pc' = "L234"
    /\ UNCHANGED <<result, errDs, vlc_location, args, data_dir, fsVars, dbVars, catVars,
                   sigVars, vlcSig, vlc_pid, pidReused, strangerSignalled, lastKill, wd>>

\* lines 225-232: Command::spawn; kill_on_drop is not set
SpawnPlayer ==
    /\ Running /\ pc = "L225"
    /\ \E ok \in BOOLEAN :
        IF ok
        THEN /\ vlc' = "live" /\ pc' = "L234"
             /\ UNCHANGED <<result, errAt, errDs>>
        ELSE /\ Fail("spawn", "")
             /\ UNCHANGED vlc
    /\ UNCHANGED <<vlc_location, args, data_dir, fsVars, dbVars, catVars, sigVars, vlcSig,
                   vlc_pid, pidReused, strangerSignalled, lastKill, wd>>

\* line 234
CapturePid ==
    /\ Running /\ pc = "L234"
    /\ vlc_pid' \in Pids
    /\ pc' = "L236"
    /\ UNCHANGED <<result, errAt, errDs, vlc_location, args, data_dir, fsVars, dbVars,
                   catVars, sigVars, vlc, vlcSig, pidReused, strangerSignalled, lastKill, wd>>

\* the signals ctrlc takes over: SIGINT, and SIGTERM too when it is built with
\* its termination feature; its sigaction replaces the one flag::register installed
CtrlcBuilds == {{"SIGINT"}, {"SIGINT", "SIGTERM"}}

\* lines 236-242: ctrlc::set_handler(..)?
SetHandler ==
    /\ Running /\ pc = "L236"
    /\ \/ /\ ctrlcSignals' \in CtrlcBuilds
          /\ pc' = "L244"
          /\ UNCHANGED <<result, errAt, errDs>>
       \/ /\ Fail("set_handler", "")
          /\ UNCHANGED ctrlcSignals
    /\ UNCHANGED <<vlc_location, args, data_dir, fsVars, dbVars, catVars, registered, term,
                   handlerPending, nSignals, sigAfterSpawn, playerVars, wd>>

\* line 244: tokio::spawn of the watchdog task
SpawnWatchdog ==
    /\ Running /\ pc = "L244"
    /\ wd' = "check"
    /\ pc' = "L256"
    /\ UNCHANGED <<result, errAt, errDs, vlc_location, args, data_dir, fsVars, dbVars,
                   catVars, sigVars, playerVars>>

\* line 256: wait().await resolves once the player has exited, and reaps it
WaitReaps ==
    /\ Running /\ pc = "L256"
    /\ vlc = "exited"
    /\ vlc' = "reaped" /\ pc' = "L258"
    /\ UNCHANGED <<result, errAt, errDs, vlc_location, args, data_dir, fsVars, dbVars,
                   catVars, sigVars, vlcSig, vlc_pid, pidReused, strangerSignalled,
                   lastKill, wd>>

\* line 256: wait().await? with an I/O error, whatever the player's state
WaitFails ==
    /\ Running /\ pc = "L256"
    /\ Fail("wait", "")
    /\ UNCHANGED <<vlc_location, args, data_dir, fsVars, dbVars, catVars, sigVars,
                   playerVars, wd>>

Wait == WaitReaps \/ WaitFails

\* lines 258-260
Return ==
    /\ Running /\ pc = "L258"
    /\ result' = "Ok" /\ pc' = "returned"
    /\ UNCHANGED <<errAt, errDs, vlc_location, args, data_dir, fsVars, dbVars, catVars,
                   sigVars, playerVars, wd>>

Supervise ==
    \/ SpawnPlayer \/ CapturePid \/ SetHandler \/ SpawnWatchdog \/ Wait \/ Return

\* line 245: the loop condition
loop_continues_while_set(flag) == flag

loop_continues(flag) == ~flag

\* line 245: while !term.load(Relaxed)
WatchdogCheck ==
    /\ Running /\ wd = "check"
    /\ wd' = IF loop_continues(term) THEN "sleep" ELSE "done"
    /\ UNCHANGED <<mainVars, fsVars, dbVars, catVars, sigVars, playerVars>>

\* a watchdog that marks the shutdown itself once it has sent its kill
WatchdogKill_sets_flag ==
    /\ Running /\ wd = "sleep"
    /\ IF vlc_pid # NoPid
       THEN kill_process(vlc_pid, "watchdog")
       ELSE UNCHANGED <<vlcSig, strangerSignalled, lastKill>>
    /\ wd' = "check"
    /\ term' = TRUE
    /\ UNCHANGED <<mainVars, fsVars, dbVars, catVars, registered, ctrlcSignals,
                   handlerPending, nSignals, sigAfterSpawn, vlc, vlc_pid, pidReused>>

\* lines 246-252: the sleep ends, then the kill
WatchdogKill ==
    /\ Running /\ wd = "sleep"
    /\ IF vlc_pid # NoPid
       THEN kill_process(vlc_pid, "watchdog")
       ELSE UNCHANGED <<vlcSig, strangerSignalled, lastKill>>
    /\ wd' = "check"
    /\ UNCHANGED <<mainVars, fsVars, dbVars, catVars, sigVars, vlc, vlc_pid, pidReused>>

Watchdog == WatchdogCheck \/ WatchdogKill

\* lines 236-241: the closure, run by the ctrlc thread once per signal it took
HandlerRun ==
    /\ Running /\ handlerPending > 0
    /\ handlerPending' = handlerPending - 1
    /\ IF vlc_pid # NoPid
       THEN kill_process(vlc_pid, "handler")
       ELSE UNCHANGED <<vlcSig, strangerSignalled, lastKill>>
    /\ UNCHANGED <<mainVars, fsVars, dbVars, catVars, registered, term, ctrlcSignals,
                   nSignals, sigAfterSpawn, vlc, vlc_pid, pidReused, wd>>

\* lines 128-129, 236: a SIGINT or SIGTERM reaches the program
Signal ==
    /\ Running /\ nSignals < MaxSignals
    /\ nSignals' = nSignals + 1
    /\ sigAfterSpawn' = (sigAfterSpawn \/ vlc # "none")
    /\ \E sig \in {"SIGINT", "SIGTERM"} :
        IF sig \in ctrlcSignals
        THEN /\ handlerPending' = handlerPending + 1
             /\ UNCHANGED <<term, result>>
        ELSE IF sig \in registered
        THEN /\ term' = TRUE
             /\ UNCHANGED <<handlerPending, result>>
        ELSE /\ result' = "Killed"
             /\ UNCHANGED <<term, handlerPending>>
    /\ UNCHANGED <<pc, errAt, errDs, vlc_location, args, data_dir, fsVars, dbVars, catVars,
                   registered, ctrlcSignals, playerVars, wd>>

\* the player ends by itself: the stream ended, playback failed, the user quit it
PlayerExits ==
    /\ vlc = "live"
    /\ vlc' = "exited"
    /\ UNCHANGED <<mainVars, fsVars, dbVars, catVars, sigVars, vlcSig, vlc_pid, pidReused,
                   strangerSignalled, lastKill, wd>>

\* the player acts on a SIGTERM it received (libc::kill, lines 348, 354)
PlayerTerminated ==
    /\ vlc = "live" /\ vlcSig
    /\ vlc' = "exited"
    /\ UNCHANGED <<mainVars, fsVars, dbVars, catVars, sigVars, vlcSig, vlc_pid, pidReused,
                   strangerSignalled, lastKill, wd>>

\* once the player is reaped the OS may give its identifier to a new process
ReusePid ==
    /\ Running /\ vlc = "reaped" /\ ~pidReused
    /\ pidReused' = TRUE
    /\ UNCHANGED <<mainVars, fsVars, dbVars, catVars, sigVars, vlc, vlcSig, vlc_pid,
                   strangerSignalled, lastKill, wd>>

----------------------------------------------------------------------------
(* Specifications *)

Main ==
    \/ FindVlc \/ RegisterFlag \/ ParseArgs \/ DataDir \/ get_db \/ GetDbReturn
    \/ Pipeline \/ Supervise

\* one run of the program
Next ==
    \/ Main \/ Watchdog \/ HandlerRun \/ Signal
    \/ PlayerExits \/ PlayerTerminated \/ ReusePid

Spec == Init /\ [][Next]_vars

\* the steps of main that are taken whenever they can be: all but an I/O error
\* of the wait, which no scheduling brings about
Scheduled ==
    \/ FindVlc \/ RegisterFlag \/ ParseArgs \/ DataDir \/ get_db \/ GetDbReturn
    \/ Pipeline \/ SpawnPlayer \/ CapturePid \/ SetHandler \/ SpawnWatchdog
    \/ WaitReaps \/ Return

\* the runtime schedules the main task, the watchdog task and the ctrlc thread
\* while the program runs, and a player that received SIGTERM acts on it
FairSpec ==
    /\ Spec
    /\ WF_vars(Scheduled) /\ WF_vars(Watchdog) /\ WF_vars(HandlerRun)
    /\ WF_vars(PlayerTerminated)

\* the state in which main calls get_db (line 143), whatever the run before it
AtGetDb ==
    /\ InitCommon
    /\ vlc_location = TRUE /\ args = NoArgs /\ data_dir = "/data/EchoTune"

\* the cache step alone, run MaxCalls times against one data directory
CacheInit ==
    /\ AtGetDb
    /\ pc = "L265"
    /\ files \in StartFiles
    /\ dirExists \in {b \in BOOLEAN : (\E d \in Datasets : files[d] # Absent) => b}
    /\ calls = 1
    /\ hist = << Snapshot >>

\* get_db has returned and is called again with the same data_dir
EnsureAgain ==
    /\ pc = "L143ret" /\ calls < MaxCalls
    /\ pc' = "L265"
    /\ calls' = calls + 1
    /\ hist' = Append(hist, Snapshot)
    /\ db_ret' = "none" /\ errAt' = "" /\ errDs' = ""
    /\ res' = [d \in Datasets |-> NoRes]
    /\ UNCHANGED <<result, vlc_location, args, data_dir, fsVars, ds, requests, touches,
                   checks, catVars, sigVars, playerVars, wd>>

CacheNext == get_db \/ EnsureAgain

CacheSpec == CacheInit /\ [][CacheNext]_vars

\* the catalog pipeline alone, from a cached stations file of any bounded content
FilterInit ==
    /\ InitCommon
    /\ vlc_location = TRUE /\ data_dir = "/data/EchoTune"
    /\ args \in Args
    /\ pc = "L147"
    /\ dirExists = TRUE
    /\ files \in {[stations |-> s, countries |-> Json(CountryList)] :
                    s \in {Json(c) : c \in Catalogs} \cup {Garbage, Absent}}
    /\ calls = 1
    /\ hist = << Snapshot >>

FilterNext == Pipeline

FilterSpec == FilterInit /\ [][FilterNext]_vars

----------------------------------------------------------------------------
(* Player supervision: C1 - C4 *)

\* the player was spawned in this run
Spawned == vlc # "none"

\* C1: whenever main has returned - normally after the wait, or with the error
\* of the handler registration or of the wait call - a player that was spawned
\* is no longer live.
C1_PlayerNeverOutlivesProgram ==
    (Spawned /\ (result = "Ok" \/ (result = "Err" /\ errAt \in {"set_handler", "wait"})))
        => vlc # "live"

\* C2: a signal that arrives after the spawn succeeded (the first signal of the
\* run) leads to the player no longer being live and the program having
\* returned from its wait (runs that end in an I/O error of the registration
\* or of the wait are left to C1).
C2_SignalStopsPlayer ==
    (sigAfterSpawn /\ nSignals = 1 /\ result # "Err")
        ~> ((vlc # "live" /\ result = "Ok") \/ result = "Err")

\* C3: the watchdog issues termination requests only once the flag is set, so
\* with no signal received the program never sends the player a termination
\* request.
C3_WatchdogKillsOnlyAfterSignal ==
    /\ lastKill.by = "watchdog" => lastKill.flag
    /\ nSignals = 0 => ~vlcSig

\* C4: a termination request issued by the handler or the watchdog once the
\* player has exited changes nothing but the position of the context issuing it.
C4_KillAfterExitChangesNothing ==
    [][((WatchdogKill \/ HandlerRun) /\ vlc \in {"exited", "reaped"})
        => UNCHANGED <<mainVars, fsVars, dbVars, catVars, registered, term, ctrlcSignals,
                       vlc, vlcSig, vlc_pid, pidReused, strangerSignalled>>]_vars

----------------------------------------------------------------------------
(* Dataset cache: C5 - C7 *)

\* the file system and the counters as the current call of get_db found them
AtEntry == hist[calls]

\* a success status, as HTTP defines it
Is2xx(status) == status \in 200..299

\* C5, as stated: two calls in a row that both return Ok, for a dataset whose
\* file was absent at first, issue exactly one GET for it.
C5_TwoCallsOneFetch ==
    \A d \in Datasets :
        (calls = 2 /\ pc = "L143ret" /\ db_ret = "Ok" /\ AtEntry.prev = "Ok"
            /\ hist[1].files[d] = Absent)
            => requests[d] = 1

\* C5, amended: a call that finds the file in place issues no GET for it and
\* does not touch it; and when the call before found it absent and left it in
\* place, the two calls together issued exactly one GET for it.
C5_SecondCallIsNoOp ==
    \A d \in Datasets :
        (calls >= 2 /\ AtEntry.files[d] # Absent)
            => /\ requests[d] = AtEntry.requests[d]
               /\ touches[d] = AtEntry.touches[d]
               /\ files[d] = AtEntry.files[d]
               /\ hist[calls - 1].files[d] = Absent
                    => requests[d] = hist[calls - 1].requests[d] + 1

C5_Witness ==
    /\ calls = 2 /\ pc = "L143ret" /\ db_ret = "Ok"
    /\ hist[1].files["stations"] = Absent
    /\ hist[2].files["stations"] = Json(ScenarioA)
    /\ checks["stations"] = 2
    /\ requests["stations"] = 1

\* C6: a GET is issued for a dataset only if its file was absent; and when both
\* files are in place get_db issues no request, leaves both as they are and
\* returns Ok.
C6_CachedRunNoNetwork ==
    /\ \A d \in Datasets :
        (calls >= 1 /\ requests[d] > AtEntry.requests[d]) => AtEntry.files[d] = Absent
    /\ (pc = "L143ret" /\ \A d \in Datasets : AtEntry.files[d] # Absent)
        => /\ requests = AtEntry.requests
           /\ files = AtEntry.files
           /\ db_ret = "Ok"

\* C7: after a non-2xx response for a dataset its file is absent and untouched
\* and the block is left without an error (on to the next dataset, or Ok(()));
\* the file is created or written only after a 2xx response.
C7_NonSuccessLeavesNoFile ==
    \A d \in Datasets :
        /\ (calls >= 1 /\ res[d] # NoRes /\ ~Is2xx(res[d].status))
            => /\ files[d] = Absent
               /\ touches[d] = AtEntry.touches[d]
               /\ ~(db_ret = "Err" /\ errDs = d)
               /\ (ds = d => pc = "status")
               /\ (d = "countries" /\ ds = "none") => db_ret = "Ok"
        /\ (calls >= 1 /\ touches[d] > AtEntry.touches[d])
            => Is2xx(res[d].status)

C7_Witness ==
    /\ pc = "L143ret" /\ db_ret = "Ok"
    /\ res["stations"].status = 404 /\ files["stations"] = Absent
    /\ res["countries"].status = 503 /\ files["countries"] = Absent

----------------------------------------------------------------------------
(* Catalog pipeline: C8 - C10 *)

\* main is past the given stage of the pipeline
PastNormalize == pc \in {"L164", "L173", "L194", "L199", "L212", "L225"}
PastFilterCountry == pc \in {"L173", "L194", "L199", "L212", "L225"}

\* a name that is empty once trimmed
IsBlank(name) == trim(name) = <<>>

\* C8: the name pass turns every blank name (empty or whitespace only) into
\* "Unknown", keeps every other name, and changes no other field, nor the
\* number or the order of the stations.
C8_BlankNamesBecomeUnknown ==
    PastNormalize =>
        /\ Len(station_norm) = Len(station_raw)
        /\ \A i \in 1..Len(station_raw) :
            /\ station_norm[i].name =
                 (IF IsBlank(station_raw[i].name) THEN Unknown ELSE station_raw[i].name)
            /\ station_norm[i].countrycode = station_raw[i].countrycode
            /\ station_norm[i].url = station_raw[i].url

\* out holds exactly the stations of in whose country code is code, in order:
\* its i-th element is the station at the i-th matching position of in
IsSelectionOf(out, in, code) ==
    LET hits == {j \in 1..Len(in) : in[j].countrycode = code}
    IN  /\ Len(out) = Cardinality(hits)
        /\ \A i \in 1..Len(out) :
            \E j \in hits : Cardinality({k \in hits : k <= j}) = i /\ out[i] = in[j]

\* C9: with a country code given, the first filter yields exactly the stations
\* with that code, in input order, none dropped or repeated; with none given it
\* yields its input.
C9_ExplicitCountryFilter ==
    PastFilterCountry =>
        IF args.country.tag = "Some"
        THEN IsSelectionOf(station_c, station_norm, args.country.val)
        ELSE station_c = station_norm

C9_Witness ==
    /\ pc = "L173" /\ args.country = Some("US")
    /\ Len(station_norm) = MaxStations /\ Len(station_c) = 1
    /\ station_norm[1].countrycode = "us"
    /\ station_c[1] = station_norm[MaxStations]

\* C10: with the stations dataset of scenario A the station is named "Unknown"
\* after load, and the shortlist handed to the station picker is that one
\* station for --country US and empty for --country FR.
C10_ScenarioA ==
    (files["stations"] = Json(ScenarioA) /\ PastNormalize) =>
        /\ station_norm = << [ScenarioA[1] EXCEPT !.name = Unknown] >>
        /\ (pc = "L212" /\ args.country = Some("US")) => station_list = station_norm
        /\ (pc = "L212" /\ args.country = Some("FR")) => station_list = <<>>

----------------------------------------------------------------------------
(* Player supervision: C11 - C13, C16, C18 *)

\* C11: when the spawn fails main returns the error, and in that run there is
\* no player, no captured identifier, no ctrlc handler, no watchdog task and no
\* termination request.
C11_SpawnFailureIsFatal ==
    errAt = "spawn" =>
        /\ result = "Err" /\ pc = "returned"
        /\ vlc = "none" /\ vlc_pid = NoPid
        /\ ctrlcSignals = {} /\ handlerPending = 0
        /\ wd = "none"
        /\ lastKill = NoKill /\ ~vlcSig /\ ~strangerSignalled

C11_Witness ==
    /\ errAt = "spawn" /\ result = "Err"
    /\ station_selection = 1 /\ term

\* C12: the flag `term` starts unset, is never cleared once set, and is set
\* only by the step in which a signal is received: no step of main, of the
\* watchdog, of the ctrlc handler or of the player changes it.
C12_FlagMonotonicSignalOnly ==
    /\ ~term
    /\ [][ /\ term => term'
           /\ term' # term => /\ nSignals' = nSignals + 1
                              /\ UNCHANGED <<pc, wd, vlc, handlerPending, lastKill>> ]_vars

C12_Witness ==
    /\ term /\ nSignals = 1
    /\ wd = "done" /\ vlc = "reaped" /\ result = "Ok"

\* C13: each iteration of the watchdog reads the flag once; when it reads it
\* unset the iteration goes on to one termination request against vlc_pid and
\* back to the next read; when it reads it set the loop ends, and nothing else
\* ends it while the program runs.  Once the flag is set the watchdog sends at
\* most one more request, then ends and stays ended.
C13_WatchdogLoop ==
    /\ [](lastKill.late <= 1)
    /\ []((Running /\ wd \in {"check", "sleep"}) => ENABLED Watchdog)
    /\ [][ /\ (wd = "check" /\ wd' # wd) =>
                /\ wd' = (IF term THEN "done" ELSE "sleep")
                /\ UNCHANGED <<lastKill, vlcSig, strangerSignalled>>
           /\ (wd = "sleep" /\ wd' # wd) =>
                /\ wd' = "check"
                /\ lastKill'.by = "watchdog" /\ lastKill'.flag = term
                /\ lastKill'.target = PidTarget
                /\ vlc = "live" => vlcSig'
           /\ (lastKill' # lastKill /\ lastKill'.by = "watchdog") => wd = "sleep"
           /\ wd = "none" => wd' \in {"none", "check"}
           /\ wd = "done" => wd' = "done" ]_vars
    /\ (term /\ wd \in {"check", "sleep"}) ~> (wd = "done" \/ ~Running)

C13_Witness ==
    /\ wd = "done" /\ lastKill.by = "watchdog"
    /\ lastKill.flag /\ lastKill.late = 1
    /\ lastKill.target = "player"

\* C16: a signal received after the registration of lines 128-129 and before
\* the spawn still leads to a termination request against the player once it
\* is spawned (unless the player has ended by itself or main has failed); told
\* for the runs in which no second signal follows.
C16_EarlySignalStillStopsPlayer ==
    (term /\ nSignals = 1 /\ pc = "L225" /\ result = "running")
        ~> (vlcSig \/ vlc \in {"exited", "reaped"} \/ result = "Err" \/ nSignals > 1)

\* C18: no termination request is sent to vlc_pid after wait has reaped the
\* player: every request finds the player not yet reaped, so the identifier is
\* never signalled once it may belong to another process.
C18_NoKillAfterReap ==
    /\ lastKill.target \notin {"nobody", "stranger"}
    /\ ~strangerSignalled

----------------------------------------------------------------------------
(* Dataset cache: C17 *)

\* C17: when get_db returns an error raised while it fetched a dataset - by
\* send, by File::create, by reading the body or by writing it - no file is
\* left at that dataset's path.
C17_FailedFetchLeavesNoFile ==
    (db_ret = "Err" /\ errDs \in Datasets /\ errAt \in {"send", "File::create", "bytes", "copy"})
        => files[errDs] = Absent

----------------------------------------------------------------------------
(* Station pipeline: C14 *)

PastFilterSelected == pc \in {"L199", "L212", "L225"}

\* C14: without --countries the resolved code is "" and the second filter
\* matches on it literally: the shortlist is exactly the stations left by the
\* first filter whose country_code is "", in input order; so with a non-empty
\* --country and no --countries the shortlist is empty.
C14_SecondFilterWithoutSelection ==
    (PastFilterSelected /\ ~args.countries) =>
        /\ country_code = ""
        /\ IsSelectionOf(station_list, station_c, "")
        /\ (args.country.tag = "Some" /\ args.country.val # "") => station_list = <<>>

C14_Witness ==
    /\ pc = "L199" /\ ~args.countries /\ args.country = Some("US")
    /\ Len(station_c) = MaxStations
    /\ station_list = <<>>

----------------------------------------------------------------------------
(* Start-up order: C15, C19 *)

\* C15: a player exists only if get_db returned Ok and stations.db was read and
\* parsed.  An error of get_db (a transport failure among them), a stations
\* file that is missing after get_db (as after a non-2xx answer) and one that
\* does not parse each end main with an error and without a player; no dataset
\* is requested twice and get_db is not called again.
C15_SpawnOnlyAfterLoad ==
    /\ Spawned => /\ db_ret = "Ok"
                  /\ files["stations"].kind = "json"
                  /\ station_raw = files["stations"].val
    /\ calls <= 1 /\ \A d \in Datasets : requests[d] <= 1
    /\ db_ret = "Err" =>
        /\ ~Spawned /\ pc \in {"L143ret", "returned"}
        /\ pc = "returned" => result = "Err"
    /\ (db_ret = "Ok" /\ pc \notin {"L143ret", "L147"} /\ files["stations"].kind # "json") =>
        /\ result = "Err" /\ pc = "returned" /\ ~Spawned
        /\ errDs = "stations"
        /\ errAt = (IF files["stations"] = Absent THEN "read_to_string" ELSE "from_str")

C15_Witness ==
    /\ result = "Err" /\ errAt = "read_to_string" /\ errDs = "stations"
    /\ res["stations"].status = 404 /\ requests["stations"] = 1
    /\ db_ret = "Ok"

\* VLC was found nowhere, or the data directory did not resolve
EnvError == ~vlc_location \/ data_dir = "null"

\* C19: when VLC is at none of the known locations, or the data directory does
\* not resolve, main ends at once (lines 123, 140): get_db is never entered, and
\* no step of such a run creates the directory or a file, sends a request or
\* spawns a process.
C19_EnvErrorsExitEarly ==
    /\ [](EnvError => /\ pc \in {"L117", "L128", "L129", "L131", "L134", "returned"}
                      /\ calls = 0 /\ requests = ZeroCount /\ touches = ZeroCount
                      /\ ~Spawned /\ wd = "none")
    /\ []((~vlc_location /\ pc # "L117") => (pc = "returned" /\ result = "Ok"))
    /\ [][EnvError' => UNCHANGED <<dirExists, files, requests, touches, vlc>>]_vars

C19_Witness ==
    /\ pc = "returned" /\ result = "Ok"
    /\ vlc_location /\ data_dir = "null"
    /\ registered = {"SIGTERM", "SIGINT"}
    /\ ~dirExists

====
